---- MODULE Spec2Model ----
(***************************************************************************)
(* Rating engine of the badminton team selector: the SQLite-backed         *)
(* DatabaseService (players, matches, match_history) and the Express       *)
(* routes that drive it.  Every `await this.db.run/get/all` is one SQL     *)
(* statement and one atomic step; the handlers of concurrent requests      *)
(* interleave between their statements, because no handler opens a         *)
(* transaction.                                                            *)
(***************************************************************************)
EXTENDS Integers, Sequences, FiniteSets, TLC

\* ------------------------------------------------------------------ bounds
MaxPlayers == 3      \* player ids ever allocated
MaxMatches == 2      \* distinct match ids clients use
NumReq == 2          \* requests in flight at the same time
MaxOps == 2          \* requests the server accepts in one run

\* ------------------------------------------------------- program constants
MinElo == 100
MaxElo == 3000
KWin == 16
DefaultRank == 999999

None == 0
Ids == 1..MaxPlayers
MatchIds == 1..MaxMatches
Req == 1..NumReq

VARIABLES
    players,   \* table players: player_id -> row
    nextId,    \* next player_id createPlayer generates
    matches,   \* table matches: set of match rows
    history,   \* table match_history, in insertion order
    req,       \* per request slot: the handler's position and locals
    ops,       \* requests accepted so far
    ui,        \* the browser: the results screen and its pending fetch
    gl         \* the browser: one call into utils/gameLogic, or of a route
               \* that only reads, with its arguments and what it returned

vars == <<players, nextId, matches, history, req, ops, ui, gl>>

Max(a, b) == IF a > b THEN a ELSE b
Min(a, b) == IF a < b THEN a ELSE b

\* ------------------------------------------------------------ input sets
\* Rating triples a client posts to POST /api/players: the add-player form
\* (1200), the extremes of the CHECK range, and one value outside it; and the
\* triple addDemoPlayers hands to createPlayer.
CreateInputs ==
    { [currentElo |-> e, peakElo |-> e, initialElo |-> e] : e \in {1200, 3000, 3016} }
      \cup { [currentElo |-> 1300, peakElo |-> 1300, initialElo |-> 1200] }

\* Bodies of PUT /api/players/:id that reach a rating or statistics column.
UpdateInputs ==
    { [col |-> "current_elo", val |-> 110],
      [col |-> "current_elo", val |-> 3016],
      [col |-> "wins", val |-> 1] }

\* current_elo of the players the pool starts with, by player id: everybody
\* at the form's 1200, or the two ends of the CHECK range in turn.
InitPools ==
    { [k \in 1..(MaxPlayers - 1) |-> 1200],
      [k \in 1..(MaxPlayers - 1) |-> IF k % 2 = 1 THEN 3000 ELSE 110] }

Scores == { <<21, 15>>, <<15, 21>>, <<21, 21>> }

\* <<team1.player1Id, team1.player2Id, team2.player1Id, team2.player2Id>>
TeamShapes == { <<1, None, 2, None>>, <<1, 2, 3, None>> }

MatchOf(id, d, t, s, ok) ==
    [matchId |-> id, date |-> d, t1p1 |-> t[1], t1p2 |-> t[2], t2p1 |-> t[3],
     t2p2 |-> t[4], s1 |-> s[1], s2 |-> s[2], scoreOk |-> ok]

\* matchId is `match_${Date.now()}`: a fresh id is the next unused one; a
\* client may also send again an id that is already stored.
FreshId(stored) == Cardinality(stored) + 1

\* A MatchResult as the service's signature declares it (date is a Date), and
\* the malformed bodies the route and recordMatch reject before any statement:
\* a missing player id, a score that is no number, and a date that is the
\* string express.json() leaves in the body.
MatchInputs(stored) ==
    { MatchOf(id, "Date", t, s, TRUE) :
        id \in { x \in MatchIds : x <= FreshId(stored) }, t \in TeamShapes, s \in Scores }
      \cup { MatchOf(1, "Date", <<None, None, 1, None>>, <<21, 15>>, TRUE),
             MatchOf(1, "Date", <<1, None, 2, None>>, <<21, 15>>, FALSE),
             MatchOf(1, "String", <<1, None, 2, None>>, <<21, 15>>, TRUE) }

NoMatch == MatchOf(0, "Date", <<None, None, None, None>>, <<0, 0>>, TRUE)

\* ------------------------------------------------------------- the tables
\* The players table without its CHECK on current_elo.
EloCheckOff(e) == TRUE

\* CHECK (current_elo >= 100 AND current_elo <= 3000)
EloCheck(e) == e >= MinElo /\ e <= MaxElo

\* A row as createPlayer inserts it: the three ratings from the body, every
\* other column from its DEFAULT.  win_rate is kept as the fraction written.
NewRow(d) ==
    [elo |-> d.currentElo, peak |-> d.peakElo, initial |-> d.initialElo,
     total |-> 0, wins |-> 0, losses |-> 0, wr |-> <<0, 1>>,
     streak |-> 0, longest |-> 0,
     rank |-> DefaultRank, prev |-> DefaultRank, change |-> 0]

NoRow == NewRow([currentElo |-> 0, peakElo |-> 0, initialElo |-> 0])

Exists(p) == p \in DOMAIN players

\* ------------------------------------------------------- request records
Idle ==
    [kind |-> "none", pc |-> "idle", status |-> 0, m |-> NoMatch, i |-> 0,
     snap |-> NoRow, order |-> <<>>, j |-> 0, inserted |-> FALSE]

Finish(r, code) == [Idle EXCEPT !.kind = req[r].kind, !.pc = "done", !.status = code,
                                !.m = req[r].m, !.inserted = req[r].inserted]

InFlight(r) == req[r].pc \notin {"idle", "done"}

\* A request is taken by the first slot that is not running a handler; the
\* slot keeps the last response until then, and the response the browser's
\* fetch is waiting for until the browser has read it.
Awaited(r) == ui.phase \in {"saving", "recording"} /\ ui.slot = r

Busy(r) == InFlight(r) \/ Awaited(r)

Free(r) == ~Busy(r) /\ (\A q \in Req : q < r => Busy(q)) /\ ops < MaxOps

\* ---------------------------------------------------------- pure helpers
\* updatePlayerStatsAfterMatch: const isTeam1Winner = score.team1 > score.team2
IsTeam1Winner(m) == m.s1 > m.s2

\* [t1.player1Id, t1.player2Id, t2.player1Id, t2.player2Id].filter(Boolean)
AllPlayerIds(m) ==
    SelectSeq(<<m.t1p1, m.t1p2, m.t2p1, m.t2p2>>, LAMBDA x : x # None)

IsTeam1Player(m, pid) == pid \in {m.t1p1, m.t1p2}

IsWinner(m, pid) == IF IsTeam1Player(m, pid) THEN IsTeam1Winner(m) ELSE ~IsTeam1Winner(m)

\* The rating change with ELO_CONSTANTS.K_FACTOR for 16.
EloChangeK32(isWinner) == IF isWinner THEN 32 ELSE -32

\* const eloChange = isWinner ? 16 : -16
EloChange(isWinner) == IF isWinner THEN KWin ELSE -KWin

\* Math.max(100, Math.min(3000, player.currentElo + eloChange))
NewElo(elo, change) == Max(MinElo, Min(MaxElo, elo + change))

\* A loss counted for every participant.
NewLossesAlways(p, isWinner) == p.losses + 1

NewWins(p, isWinner) == p.wins + (IF isWinner THEN 1 ELSE 0)
NewLosses(p, isWinner) == p.losses + (IF isWinner THEN 0 ELSE 1)
NewTotalMatches(p) == p.total + 1
NewWinStreak(p, isWinner) == IF isWinner THEN p.streak + 1 ELSE 0

\* The partner column of the history row: the other slot of the player's team.
PartnerId(m, pid) ==
    IF IsTeam1Player(m, pid)
    THEN (IF m.t1p1 = pid THEN m.t1p2 ELSE m.t1p1)
    ELSE (IF m.t2p1 = pid THEN m.t2p2 ELSE m.t2p1)

\* The UPDATE players statement of updatePlayerStatsAfterMatch: every column
\* but longest_win_streak is written from the snapshot `p` the handler read
\* earlier; longest_win_streak is compared with the row as it is now.
\* The UPDATE with `peak_elo = ?` bound to the new rating.
StatsUpdatePeakIsNew(row, p, isWinner) ==
    [row EXCEPT
        !.elo = NewElo(p.elo, EloChange(isWinner)),
        !.peak = NewElo(p.elo, EloChange(isWinner)),
        !.total = NewTotalMatches(p),
        !.wins = NewWins(p, isWinner),
        !.losses = NewLosses(p, isWinner),
        !.wr = <<NewWins(p, isWinner), NewTotalMatches(p)>>,
        !.streak = NewWinStreak(p, isWinner),
        !.longest = IF NewWinStreak(p, isWinner) > row.longest
                    THEN NewWinStreak(p, isWinner) ELSE row.longest]

\* The UPDATE with longest_win_streak computed from the snapshot, as the other
\* columns are.
StatsUpdateLongestFromSnapshot(row, p, isWinner) ==
    [row EXCEPT
        !.elo = NewElo(p.elo, EloChange(isWinner)),
        !.total = NewTotalMatches(p),
        !.wins = NewWins(p, isWinner),
        !.losses = NewLosses(p, isWinner),
        !.wr = <<NewWins(p, isWinner), NewTotalMatches(p)>>,
        !.streak = NewWinStreak(p, isWinner),
        !.longest = IF NewWinStreak(p, isWinner) > p.longest
                    THEN NewWinStreak(p, isWinner) ELSE p.longest]

StatsUpdate(row, p, isWinner) ==
    [row EXCEPT
        !.elo = NewElo(p.elo, EloChange(isWinner)),
        !.total = NewTotalMatches(p),
        !.wins = NewWins(p, isWinner),
        !.losses = NewLosses(p, isWinner),
        !.wr = <<NewWins(p, isWinner), NewTotalMatches(p)>>,
        !.streak = NewWinStreak(p, isWinner),
        !.longest = IF NewWinStreak(p, isWinner) > row.longest
                    THEN NewWinStreak(p, isWinner) ELSE row.longest]

\* The INSERT INTO match_history row.
HistoryRow(m, pid, p) ==
    [player |-> pid, match |-> m.matchId, partner |-> PartnerId(m, pid),
     result |-> IF IsWinner(m, pid) THEN "WIN" ELSE "LOSS",
     scoreFor |-> IF IsTeam1Player(m, pid) THEN m.s1 ELSE m.s2,
     scoreAgainst |-> IF IsTeam1Player(m, pid) THEN m.s2 ELSE m.s1,
     eloChange |-> EloChange(IsWinner(m, pid)),
     previousElo |-> p.elo,
     newElo |-> NewElo(p.elo, EloChange(IsWinner(m, pid)))]

\* Foreign keys not enforced (PRAGMA foreign_keys left off).
FkPlayerOff(pid) == TRUE

\* FOREIGN KEY (...) REFERENCES players(player_id), NULL allowed
FkPlayer(pid) == pid = None \/ Exists(pid)

\* Rows of matches and match_history that reference a player (foreign keys on).
Referenced(pid) ==
    \/ \E m \in matches : pid \in {m.t1p1, m.t1p2, m.t2p1, m.t2p2}
    \/ \E k \in 1..Len(history) : pid \in {history[k].player, history[k].partner}

\* The matches table without UNIQUE on match_id.
MatchIdUniqueOff(m) == FALSE

\* match_id TEXT UNIQUE NOT NULL: the INSERT of a stored match_id is rejected.
MatchIdTaken(m) == \E x \in matches : x.matchId = m.matchId

\* ---------------------------------------------- POST /api/players/record-match
\* The route's two validations, then recordMatch up to the end of its INSERT
\* INTO matches: date.toISOString() throws on a string, the UNIQUE match_id and
\* the four foreign keys reject the row.
AcceptRecord(r, m) ==
    /\ LET base == [Idle EXCEPT !.kind = "record", !.m = m] IN
        IF m.t1p1 = None \/ m.t2p1 = None \/ ~m.scoreOk
        THEN /\ req' = [req EXCEPT ![r] = [base EXCEPT !.pc = "done", !.status = 400]]
             /\ UNCHANGED matches
        ELSE IF \/ m.date # "Date"
                \/ MatchIdTaken(m)
                \/ ~(FkPlayer(m.t1p1) /\ FkPlayer(m.t1p2) /\ FkPlayer(m.t2p1) /\ FkPlayer(m.t2p2))
        THEN /\ req' = [req EXCEPT ![r] = [base EXCEPT !.pc = "done", !.status = 500]]
             /\ UNCHANGED matches
        ELSE /\ matches' = matches \cup {m}
             /\ req' = [req EXCEPT ![r] = [base EXCEPT !.pc = "recRead", !.i = 1,
                                                       !.inserted = TRUE]]
    /\ ops' = ops + 1
    /\ UNCHANGED <<players, nextId, history>>

StartRecord(r) ==
    /\ Free(r)
    /\ \E m \in MatchInputs(matches) : AcceptRecord(r, m)
    /\ UNCHANGED <<ui, gl>>

\* getPlayerById in the loop of updatePlayerStatsAfterMatch; a player that is
\* gone is skipped (`if (!player) continue`).
RecRead(r) ==
    /\ req[r].pc = "recRead"
    /\ LET ids == AllPlayerIds(req[r].m)
           pid == ids[req[r].i]
       IN IF Exists(pid)
          THEN req' = [req EXCEPT ![r].snap = players[pid], ![r].pc = "recUpdate"]
          ELSE IF req[r].i < Len(ids)
          THEN req' = [req EXCEPT ![r].i = @ + 1]
          ELSE req' = [req EXCEPT ![r].pc = "rankSel", ![r].i = 0]
    /\ UNCHANGED <<players, nextId, matches, history, ops, ui, gl>>

\* UPDATE players SET ... WHERE player_id = ?
RecUpdate(r) ==
    /\ req[r].pc = "recUpdate"
    /\ LET m == req[r].m
           pid == AllPlayerIds(m)[req[r].i]
       IN IF ~Exists(pid)
          THEN /\ UNCHANGED players
               /\ req' = [req EXCEPT ![r].pc = "recHist"]
          ELSE LET row == StatsUpdate(players[pid], req[r].snap, IsWinner(m, pid)) IN
               IF EloCheck(row.elo)
               THEN /\ players' = [players EXCEPT ![pid] = row]
                    /\ req' = [req EXCEPT ![r].pc = "recHist"]
               ELSE /\ UNCHANGED players
                    /\ req' = [req EXCEPT ![r] = Finish(r, 500)]
    /\ UNCHANGED <<nextId, matches, history, ops, ui, gl>>

\* INSERT INTO match_history, then the next participant or, after the last
\* one, on to the route's updateRankings.
RecHist(r) ==
    /\ req[r].pc = "recHist"
    /\ LET m == req[r].m
           ids == AllPlayerIds(m)
           pid == ids[req[r].i]
       IN IF FkPlayer(pid) /\ FkPlayer(PartnerId(m, pid))
          THEN /\ history' = Append(history, HistoryRow(m, pid, req[r].snap))
               /\ req' = [req EXCEPT ![r].snap = NoRow,
                              ![r].i = IF req[r].i < Len(ids) THEN @ + 1 ELSE 0,
                              ![r].pc = IF req[r].i < Len(ids) THEN "recRead" ELSE "rankSel"]
          ELSE /\ UNCHANGED history
               /\ req' = [req EXCEPT ![r] = Finish(r, 500)]
    /\ UNCHANGED <<players, nextId, matches, ops, ui, gl>>

\* ------------------------------------------------------------ updateRankings
\* SELECT player_id, ROW_NUMBER() OVER (ORDER BY current_elo DESC) AS new_rank
\* ... ORDER BY current_elo DESC: the ids by descending rating; rows of equal
\* rating come in rowid order, the order idx_players_elo keeps them in.
Before(tbl, a, b) ==
    \/ tbl[a].elo > tbl[b].elo
    \/ tbl[a].elo = tbl[b].elo /\ a < b

Position(tbl, a) == 1 + Cardinality({ b \in DOMAIN tbl : Before(tbl, b, a) })

RankOrder(tbl) ==
    [k \in 1..Cardinality(DOMAIN tbl) |-> CHOOSE a \in DOMAIN tbl : Position(tbl, a) = k]

\* Ranks counted from 0.
NewRankFromZero(j) == j - 1

\* new_rank of the row at position j of the SELECT's result
NewRank(j) == j

\* The SET clauses evaluated left to right, each seeing the ones before it.
RankUpdateLeftToRight(row, newRank) ==
    [row EXCEPT !.prev = row.rank, !.rank = newRank, !.change = newRank - newRank]

\* UPDATE players SET previous_rank = current_rank, current_rank = ?,
\*                    rank_change = current_rank - ?
RankUpdate(row, newRank) ==
    [row EXCEPT !.prev = row.rank, !.rank = newRank, !.change = row.rank - newRank]

\* ------------------------------------------------------------ initial state
\* badminton.db outlives the process (CREATE TABLE IF NOT EXISTS): the server
\* starts on the pool earlier requests left.  Init is the pool after one
\* POST /api/players per seed rating, each followed by its updateRankings.
\* No browser is open: the requests come from API clients.
NoBrowser == [phase |-> "closed", slot |-> 0, winner |-> "none", score |-> <<0, 0>>]

\* A Player as utils/gameLogic reads it: winRate in hundredths.
PlayerOf(id, level, rate, games) ==
    [id |-> id, skillLevel |-> level, winRate |-> rate, gamesPlayed |-> games]

NoPlayer == PlayerOf(0, "BEGINNER", 0, 0)

\* No call made: the arguments of the call (player; selectedPlayers and
\* allPlayers; selectedPlayerIds; numPlayers), what the call returned (a flag,
\* two teams, a status), the players a selection picked, what a second call
\* on the same arguments returned, and the caller's arguments as the call
\* left them.  `strength` is what calculateTeamStrength returned.
NoCall ==
    [call |-> "none", phase |-> "idle", player |-> NoPlayer, sel |-> <<>>,
     pool |-> <<>>, ids |-> <<>>, count |-> 0,
     flag |-> FALSE, out1 |-> <<>>, out2 |-> <<>>, status |-> 0, strength |-> 0,
     picked |-> <<>>, again1 |-> <<>>, again2 |-> <<>>,
     playerAfter |-> NoPlayer, selAfter |-> <<>>, poolAfter |-> <<>>]

Ranked(tbl) ==
    [p \in DOMAIN tbl |-> RankUpdate(tbl[p], NewRank(Position(tbl, p)))]

Created(tbl, id, d) ==
    [q \in DOMAIN tbl \cup {id} |-> IF q = id THEN NewRow(d) ELSE tbl[q]]

RECURSIVE PoolAfter(_)
PoolAfter(es) ==
    IF Len(es) = 0 THEN [p \in {} |-> NoRow]
    ELSE Ranked(Created(PoolAfter(SubSeq(es, 1, Len(es) - 1)), Len(es),
                        [currentElo |-> es[Len(es)], peakElo |-> es[Len(es)],
                         initialElo |-> es[Len(es)]]))

Init ==
    /\ \E es \in InitPools : players = PoolAfter(es)
    /\ nextId = MaxPlayers
    /\ matches = {}
    /\ history = <<>>
    /\ req = [r \in Req |-> Idle]
    /\ ops = 0
    /\ ui = NoBrowser
    /\ gl = NoCall

SuccessCode(kind) == IF kind = "create" THEN 201 ELSE 200

\* The state of a handler once the SELECT of updateRankings returned `o`.
AfterSelect(rec, o) ==
    IF Len(o) = 0
    THEN [rec EXCEPT !.pc = "done", !.status = SuccessCode(rec.kind)]
    ELSE [rec EXCEPT !.pc = "rankUpd", !.order = o, !.j = 1]

RankSel(r) ==
    /\ req[r].pc = "rankSel"
    /\ req' = [req EXCEPT ![r] = AfterSelect(req[r], RankOrder(players))]
    /\ UNCHANGED <<players, nextId, matches, history, ops, ui, gl>>

RankUpd(r) ==
    /\ req[r].pc = "rankUpd"
    /\ LET j == req[r].j
           pid == req[r].order[j]
       IN /\ players' = IF Exists(pid)
                        THEN [players EXCEPT ![pid] = RankUpdate(players[pid], NewRank(j))]
                        ELSE players
          /\ req' = IF j < Len(req[r].order)
                    THEN [req EXCEPT ![r].j = j + 1]
                    ELSE [req EXCEPT ![r] = Finish(r, SuccessCode(req[r].kind))]
    /\ UNCHANGED <<nextId, matches, history, ops, ui, gl>>

\* POST /api/players/update-rankings
StartRankings(r) ==
    /\ Free(r)
    /\ req' = [req EXCEPT ![r] = AfterSelect([Idle EXCEPT !.kind = "rankings"], RankOrder(players))]
    /\ ops' = ops + 1
    /\ UNCHANGED <<players, nextId, matches, history, ui, gl>>

\* ------------------------------------------------------- POST /api/players
\* createPlayer's INSERT (the body carries the required fields and a fresh
\* email), then the route's updateRankings.
StartCreate(r) ==
    /\ Free(r)
    /\ nextId <= MaxPlayers
    /\ \E d \in CreateInputs :
        LET base == [Idle EXCEPT !.kind = "create"] IN
        IF EloCheck(d.currentElo)
        THEN /\ players' = Created(players, nextId, d)
             /\ nextId' = nextId + 1
             /\ req' = [req EXCEPT ![r] = [base EXCEPT !.pc = "rankSel"]]
        ELSE /\ UNCHANGED <<players, nextId>>
             /\ req' = [req EXCEPT ![r] = [base EXCEPT !.pc = "done", !.status = 500]]
    /\ ops' = ops + 1
    /\ UNCHANGED <<matches, history, ui, gl>>

\* ------------------------------------------- DELETE /api/players/:playerId
StartDelete(r) ==
    /\ Free(r)
    /\ \E p \in Ids :
        LET base == [Idle EXCEPT !.kind = "delete"] IN
        IF ~Exists(p)
        THEN /\ UNCHANGED players
             /\ req' = [req EXCEPT ![r] = [base EXCEPT !.pc = "done", !.status = 404]]
        ELSE IF Referenced(p)
        THEN /\ UNCHANGED players
             /\ req' = [req EXCEPT ![r] = [base EXCEPT !.pc = "done", !.status = 500]]
        ELSE /\ players' = [q \in DOMAIN players \ {p} |-> players[q]]
             /\ req' = [req EXCEPT ![r] = [base EXCEPT !.pc = "rankSel"]]
    /\ ops' = ops + 1
    /\ UNCHANGED <<nextId, matches, history, ui, gl>>

\* ---------------------------------------------- PUT /api/players/:playerId
\* updatePlayer: `currentElo` and every key of `stats` become SET clauses.
ApplyUpdate(row, u) ==
    IF u.col = "current_elo" THEN [row EXCEPT !.elo = u.val]
    ELSE [row EXCEPT !.wins = u.val]

StartUpdate(r) ==
    /\ Free(r)
    /\ \E p \in Ids, u \in UpdateInputs :
        LET base == [Idle EXCEPT !.kind = "update", !.pc = "done"] IN
        IF ~Exists(p)
        THEN /\ UNCHANGED players
             /\ req' = [req EXCEPT ![r] = [base EXCEPT !.status = 404]]
        ELSE IF ~EloCheck(ApplyUpdate(players[p], u).elo)
        THEN /\ UNCHANGED players
             /\ req' = [req EXCEPT ![r] = [base EXCEPT !.status = 500]]
        ELSE /\ players' = [players EXCEPT ![p] = ApplyUpdate(players[p], u)]
             /\ req' = [req EXCEPT ![r] = [base EXCEPT !.status = 200]]
    /\ ops' = ops + 1
    /\ UNCHANGED <<nextId, matches, history, ui, gl>>

\* --------------------------------------------------------- the environment
\* The next statement of a running handler is rejected by the storage layer
\* (SQLITE_BUSY, an I/O error, a full disk); the service catches nothing and
\* the route answers 500.  No handler opens a transaction, so nothing is
\* rolled back.
StorageFault(r) ==
    /\ InFlight(r)
    /\ req' = [req EXCEPT ![r] = Finish(r, 500)]
    /\ UNCHANGED <<players, nextId, matches, history, ops, ui, gl>>

\* ------------------------------------------------------ the results screen
\* The two teams on screen are the ones generate-teams returned, two players
\* each; the form holds the winner button pressed and the two score fields
\* (0 and 0 until the user types).
UITeam1 == [id |-> "team1", players |-> <<1, 2>>]
UITeam2 == [id |-> "team2", players |-> <<3, 4>>]
UIPool == [k \in 1..4 |-> 1200]
UIScores == { <<21, 15>>, <<0, 0>> }

\* team.players[k]?.playerId
PlayerIdAt(team, k) == IF k <= Len(team.players) THEN team.players[k] ELSE None

\* The gameResult handleSubmit builds: loser is the team that was not selected.
GameResultOf(winnerId, sc) ==
    [winner |-> IF winnerId = UITeam1.id THEN UITeam1 ELSE UITeam2,
     loser |-> IF winnerId = UITeam1.id THEN UITeam2 ELSE UITeam1,
     winnerScore |-> sc[1], loserScore |-> sc[2]]

\* The body of handleSubmit's fetch.  JSON.stringify turns `new Date()` into
\* a string, and express.json() hands the route that string.
SubmitBody(id, result) ==
    MatchOf(id, "String",
            <<PlayerIdAt(UITeam1, 1), PlayerIdAt(UITeam1, 2),
              PlayerIdAt(UITeam2, 1), PlayerIdAt(UITeam2, 2)>>,
            IF result.winner.id = UITeam1.id
            THEN <<result.winnerScore, result.loserScore>>
            ELSE <<result.loserScore, result.winnerScore>>,
            TRUE)

\* The matchResult App.handleGameComplete posts through
\* PlayerService.recordMatchResult: team1 is the winning team.
GameCompleteBody(id, result) ==
    MatchOf(id, "String",
            <<PlayerIdAt(result.winner, 1), PlayerIdAt(result.winner, 2),
              PlayerIdAt(result.loser, 1), PlayerIdAt(result.loser, 2)>>,
            IF result.winner.id = "team1"
            THEN <<result.winnerScore, result.loserScore>>
            ELSE <<result.loserScore, result.winnerScore>>,
            TRUE)

\* res.ok
ResOk(status) == status >= 200 /\ status <= 299

\* GameResults.handleSubmit up to its `await fetch(...)`, with a winner
\* selected; the request reaches the route in the same step.
UISubmit(r) ==
    /\ ui.phase = "results"
    /\ Free(r)
    /\ \E w \in {UITeam1.id, UITeam2.id}, sc \in UIScores :
        /\ AcceptRecord(r, SubmitBody(FreshId(matches), GameResultOf(w, sc)))
        /\ ui' = [phase |-> "saving", slot |-> r, winner |-> w, score |-> sc]
    /\ UNCHANGED gl

\* The browser reads the response it waits for.  After handleSubmit's fetch:
\* res.ok calls onGameComplete, that is App.handleGameComplete, which posts
\* the match again; otherwise the alert.  After handleGameComplete's post:
\* the results screen, or setError.
UIResponse ==
    /\ ui.phase \in {"saving", "recording"}
    /\ req[ui.slot].pc = "done"
    /\ IF ui.phase = "saving" /\ ResOk(req[ui.slot].status)
       THEN /\ ops < MaxOps
            /\ AcceptRecord(ui.slot, GameCompleteBody(FreshId(matches),
                                                      GameResultOf(ui.winner, ui.score)))
            /\ ui' = [ui EXCEPT !.phase = "recording"]
       ELSE /\ ui' = [ui EXCEPT !.slot = 0,
                                !.phase = IF ResOk(req[ui.slot].status)
                                          THEN "shown" ELSE "failed"]
            /\ UNCHANGED <<players, nextId, matches, history, req, ops>>
    /\ UNCHANGED gl

Step(r) ==
    \/ RecRead(r) \/ RecUpdate(r) \/ RecHist(r)
    \/ RankSel(r) \/ RankUpd(r)
    \/ StorageFault(r)

Next ==
    \E r \in Req :
        \/ StartCreate(r) \/ StartRecord(r) \/ StartRankings(r)
        \/ StartDelete(r) \/ StartUpdate(r)
        \/ Step(r)

Spec == Init /\ [][Next]_vars

\* Requests served one at a time: a request arrives when no handler runs.
Quiet == \A q \in Req : ~InFlight(q)

NextSeq ==
    \E r \in Req :
        \/ Quiet /\ StartCreate(r)
        \/ Quiet /\ StartRecord(r)
        \/ Quiet /\ StartRankings(r)
        \/ Quiet /\ StartDelete(r)
        \/ Quiet /\ StartUpdate(r)
        \/ Step(r)

SpecSeq == Init /\ [][NextSeq]_vars

\* Only POST /api/players and POST /api/players/record-match are called.
NextCR == \E r \in Req : StartCreate(r) \/ StartRecord(r) \/ Step(r)
SpecCR == Init /\ [][NextCR]_vars

\* The results screen of one browser, with the four players of its two teams
\* in the pool, next to a client that refreshes the rankings.  The steps of
\* updatePlayerStatsAfterMatch are left out: recordMatch throws on the date of
\* every body the browser posts, before its first statement.
InitUI ==
    /\ players = PoolAfter(UIPool)
    /\ nextId = Len(UIPool) + 1
    /\ matches = {}
    /\ history = <<>>
    /\ req = [r \in Req |-> Idle]
    /\ ops = 0
    /\ ui = [NoBrowser EXCEPT !.phase = "results"]
    /\ gl = NoCall

NextUI ==
    \/ UIResponse
    \/ \E r \in Req : UISubmit(r) \/ StartRankings(r) \/ RankUpd(r) \/ StorageFault(r)

SpecUI == InitUI /\ [][NextUI]_vars

\* ====================================================== utils/gameLogic.ts
\* The functions of the browser's utils/gameLogic and the routes that only
\* read, each applied once to arguments the initial state draws.
MIN_GAMES_FOR_DEMOTION == 10

SkillLevels == {"BEGINNER", "INTERMEDIATE", "ADVANCED", "PRO"}

\* In hundredths, as winRate.
SKILL_LEVEL_THRESHOLDS ==
    [BEGINNER |-> 40, INTERMEDIATE |-> 45, ADVANCED |-> 48, PRO |-> 50]

\* The comparison `winRate <= threshold`.
LevelDownAtThreshold(player) ==
    IF player.gamesPlayed < MIN_GAMES_FOR_DEMOTION THEN FALSE
    ELSE player.winRate <= SKILL_LEVEL_THRESHOLDS[player.skillLevel]

shouldPlayerLevelDown(player) ==
    IF player.gamesPlayed < MIN_GAMES_FOR_DEMOTION THEN FALSE
    ELSE player.winRate < SKILL_LEVEL_THRESHOLDS[player.skillLevel]

\* Players a card is drawn for: games played on both sides of the minimum,
\* win rates on both sides of every threshold.
ReviewGames == {0, 9, 10, 11}
ReviewRates == {0, 39, 40, 41, 44, 45, 46, 47, 48, 49, 50, 51, 100}

LevelDownCalls ==
    { [NoCall EXCEPT !.call = "shouldPlayerLevelDown", !.phase = "ready",
                     !.player = PlayerOf(1, l, w, g)] :
        l \in SkillLevels, w \in ReviewRates, g \in ReviewGames }

\* Everything but gl.
Backend == <<players, nextId, matches, history, req, ops, ui>>

\* PlayerCard: const needsDemotion = shouldPlayerLevelDown(player)
CallShouldPlayerLevelDown ==
    /\ gl.call = "shouldPlayerLevelDown"
    /\ gl.phase = "ready"
    /\ gl' = [gl EXCEPT !.phase = "returned",
                        !.flag = shouldPlayerLevelDown(gl.player),
                        !.playerAfter = gl.player]
    /\ UNCHANGED Backend

\* ------------------------------------------------------ selectPlayersForGame
MaxPool == 5

Range(s) == { s[k] : k \in DOMAIN s }

\* Array.prototype.slice(0, n)
Slice(s, n) == SubSeq(s, 1, Min(n, Len(s)))

\* What sort((a, b) => a.gamesPlayed - b.gamesPlayed || Math.random() - 0.5)
\* can leave: every arrangement of the players by ascending gamesPlayed, the
\* players of equal gamesPlayed in any order the random comparator produces.
RECURSIVE SortedByGamesPlayed(_)
SortedByGamesPlayed(ps) ==
    IF ps = {} THEN { <<>> }
    ELSE UNION { { <<p>> \o rest : rest \in SortedByGamesPlayed(ps \ {p}) } :
                 p \in { q \in ps : \A o \in ps : q.gamesPlayed <= o.gamesPlayed } }

\* The guard `allPlayers.length < numPlayers - 1`.
NotEnoughOffByOne(allPlayers, numPlayers) == Len(allPlayers) < numPlayers - 1

\* if (allPlayers.length < numPlayers) throw
NotEnough(allPlayers, numPlayers) == Len(allPlayers) < numPlayers

\* The lists selectPlayersForGame can return; none when it throws.
selectPlayersForGame(allPlayers, numPlayers) ==
    IF NotEnough(allPlayers, numPlayers) THEN {}
    ELSE { Slice(sorted, numPlayers) : sorted \in SortedByGamesPlayed(Range(allPlayers)) }

\* The skill level of the k-th player of a pool: the three levels that both
\* versions of the Player type have.
LevelAt(k) ==
    CASE k % 3 = 1 -> "PRO" [] k % 3 = 2 -> "BEGINNER" [] OTHER -> "INTERMEDIATE"

PoolGames == {0, 1, 2}

\* appState.players in the order the list was loaded: any games played.
Pools ==
    UNION { { [k \in 1..n |-> PlayerOf(k, LevelAt(k), 50, g[k])] : g \in [1..n -> PoolGames] } :
            n \in 3..MaxPool }

SelectCalls ==
    { [NoCall EXCEPT !.call = "selectPlayersForGame", !.phase = "ready",
                     !.pool = pool, !.count = n] :
        pool \in Pools, n \in {2, 4} }

CallSelectPlayersForGame ==
    /\ gl.call = "selectPlayersForGame"
    /\ gl.phase = "ready"
    /\ IF selectPlayersForGame(gl.pool, gl.count) = {}
       THEN gl' = [gl EXCEPT !.phase = "threw", !.poolAfter = gl.pool]
       ELSE \E chosen \in selectPlayersForGame(gl.pool, gl.count) :
               gl' = [gl EXCEPT !.phase = "returned", !.picked = chosen,
                                !.poolAfter = gl.pool]
    /\ UNCHANGED Backend

\* ------------------------------------------------------ generateBalancedTeams
\* skillValues, doubled: ADVANCED is 2.5.
skillValues2 == [BEGINNER |-> 2, INTERMEDIATE |-> 4, ADVANCED |-> 5, PRO |-> 6]

\* strengthScore = skillScore * 0.6 + winRate * 3 * 0.4, in thousandths:
\* 0.6 * (skillValues2 / 2) is 300 thousandths per half step of skill, and
\* 3 * 0.4 * (winRate / 100) is 12 thousandths per hundredth of win rate.
strengthScore(player) == 300 * skillValues2[player.skillLevel] + 12 * player.winRate

\* players.reduce((sum, p) => sum + skillValues[p.skillLevel], 0), doubled
RECURSIVE SkillSum(_)
SkillSum(team) ==
    IF team = <<>> THEN 0
    ELSE SkillSum(SubSeq(team, 1, Len(team) - 1)) + skillValues2[team[Len(team)].skillLevel]

\* players.reduce((sum, p) => sum + p.winRate, 0)
RECURSIVE WinRateSum(_)
WinRateSum(team) ==
    IF team = <<>> THEN 0
    ELSE WinRateSum(SubSeq(team, 1, Len(team) - 1)) + team[Len(team)].winRate

\* The strength of the first player of the list, in the same units.
FirstPlayerStrength(team) ==
    IF Len(team) = 0 THEN 0 ELSE 60 * strengthScore(team[1])

\* avgSkill * 0.6 + avgWinRate * 3 * 0.4 in units of 1/60000, so that the two
\* averages of a team of up to 6 are whole numbers; 0 for no players.
calculateTeamStrength(team) ==
    IF Len(team) = 0 THEN 0
    ELSE (60 * (300 * SkillSum(team) + 12 * WinRateSum(team))) \div Len(team)

Abs(x) == IF x < 0 THEN -x ELSE x

\* One insertion of the stable sort: p goes behind every player that is at
\* least as strong.
InsertByStrength(sorted, p) ==
    LET k == Cardinality({ i \in DOMAIN sorted : strengthScore(sorted[i]) >= strengthScore(p) })
    IN SubSeq(sorted, 1, k) \o <<p>> \o SubSeq(sorted, k + 1, Len(sorted))

\* playersWithStrength.sort((a, b) => b.strengthScore - a.strengthScore):
\* descending, and stable as Array.prototype.sort is.
RECURSIVE SortByStrength(_)
SortByStrength(s) ==
    IF s = <<>> THEN <<>>
    ELSE InsertByStrength(SortByStrength(SubSeq(s, 1, Len(s) - 1)), s[Len(s)])

\* The strategies without the last.
strategiesFirstTwo == << <<1, 2>>, <<1, 3>> >>

\* [0, 1], [0, 2], [0, 3] as positions from 1.
strategies == << <<1, 2>>, <<1, 3>>, <<1, 4>> >>

\* players.filter((_, i) => i !== idx1)
OthersButFirst(ps, idx1, idx2) ==
    SubSeq(ps, 1, idx1 - 1) \o SubSeq(ps, idx1 + 1, Len(ps))

\* players.filter((_, i) => i !== idx1 && i !== idx2), for idx1 < idx2
Others(ps, idx1, idx2) ==
    SubSeq(ps, 1, idx1 - 1) \o SubSeq(ps, idx1 + 1, idx2 - 1)
        \o SubSeq(ps, idx2 + 1, Len(ps))

generateCombinations(ps) ==
    IF Len(ps) = 4
    THEN [k \in DOMAIN strategies |->
            << <<ps[strategies[k][1]], ps[strategies[k][2]]>>,
               Others(ps, strategies[k][1], strategies[k][2]) >>]
    ELSE <<>>

\* The test `difference <= smallestDifference`.
AtMost(difference, smallestDifference) == difference <= smallestDifference

\* The test `difference > smallestDifference`.
Larger(difference, smallestDifference) == difference > smallestDifference

\* difference < smallestDifference
Smaller(difference, smallestDifference) == difference < smallestDifference

\* combinations.forEach: the position of bestCombination after the first k - 1
\* combinations is `best` (0 for null, smallestDifference still Infinity).
RECURSIVE BestCombination(_, _, _, _)
BestCombination(combinations, k, best, smallestDifference) ==
    IF k > Len(combinations) THEN best
    ELSE LET difference == Abs(calculateTeamStrength(combinations[k][1])
                                 - calculateTeamStrength(combinations[k][2]))
         IN IF best = 0 \/ Smaller(difference, smallestDifference)
            THEN BestCombination(combinations, k + 1, k, difference)
            ELSE BestCombination(combinations, k + 1, best, smallestDifference)

\* The fallback: index % 2 === 0 to team1, the others to team2.
Alternate(ps, parity) ==
    LET RECURSIVE Take(_)
        Take(k) == IF k > Len(ps) THEN <<>>
                   ELSE (IF k % 2 = parity THEN <<ps[k]>> ELSE <<>>) \o Take(k + 1)
    IN Take(1)

\* Lines 63-129: the two teams for playersToUse.
Partition(playersToUse) ==
    LET playersWithStrength == SortByStrength(playersToUse)
        combinations == generateCombinations(playersWithStrength)
        best == BestCombination(combinations, 1, 0, 0)
    IN IF best # 0 THEN combinations[best]
       ELSE << Alternate(playersWithStrength, 1), Alternate(playersWithStrength, 0) >>

\* Lines 47-53: the lists playersToUse can be; none when the function throws.
PlayersToUse(selectedPlayers, allPlayers) ==
    IF Len(selectedPlayers) >= 4 THEN { selectedPlayers }
    ELSE IF Len(allPlayers) >= 4 THEN selectPlayersForGame(allPlayers, 4)
    ELSE {}

\* The pairs of teams generateBalancedTeams can return.
generateBalancedTeams(selectedPlayers, allPlayers) ==
    { Partition(playersToUse) : playersToUse \in PlayersToUse(selectedPlayers, allPlayers) }

\* Win rates of the players teams are made of, in hundredths.  On these the
\* doubles the code computes compare as the exact values above do.
TeamRates == {40, 50, 60}

\* selectedPlayers: four players the user ticked, of any level and rate.
FourPlayers ==
    { [k \in 1..4 |-> PlayerOf(k, l[k], w[k], 0)] :
        l \in [1..4 -> SkillLevels], w \in [1..4 -> TeamRates] }

\* The first n players of the list, one level after the other.
Ticked(n) == [k \in 1..n |-> PlayerOf(k, LevelAt(k), 50, 0)]

TeamCalls ==
    { [NoCall EXCEPT !.call = "generateBalancedTeams", !.phase = "ready", !.sel = sel] :
        sel \in FourPlayers \cup { Ticked(3), Ticked(5) } }
      \cup { [NoCall EXCEPT !.call = "generateBalancedTeams", !.phase = "ready",
                            !.sel = sel, !.pool = pool] :
               sel \in { Ticked(0), Ticked(3) }, pool \in Pools }

\* generateBalancedTeams(selectedPlayers, allPlayers): `map` copies the
\* players and the copy is what is sorted, so both arguments stay as given.
CallGenerateBalancedTeams ==
    /\ gl.call = "generateBalancedTeams"
    /\ gl.phase = "ready"
    /\ IF generateBalancedTeams(gl.sel, gl.pool) = {}
       THEN gl' = [gl EXCEPT !.phase = "threw", !.selAfter = gl.sel, !.poolAfter = gl.pool]
       ELSE \E teams \in generateBalancedTeams(gl.sel, gl.pool) :
               gl' = [gl EXCEPT !.phase = "returned", !.out1 = teams[1], !.out2 = teams[2],
                                !.selAfter = gl.sel, !.poolAfter = gl.pool]
    /\ UNCHANGED Backend

\* The same call once more, on the arguments as the first call left them.
CallAgain ==
    /\ gl.call = "generateBalancedTeams"
    /\ gl.phase = "returned"
    /\ \E teams \in generateBalancedTeams(gl.selAfter, gl.poolAfter) :
          gl' = [gl EXCEPT !.phase = "repeated", !.again1 = teams[1], !.again2 = teams[2]]
    /\ UNCHANGED Backend

\* -------------------------------------------------------- App.generateTeams
AppCalls ==
    { [NoCall EXCEPT !.call = "App.generateTeams", !.phase = "ready",
                     !.sel = sel, !.pool = pool] :
        sel \in { Ticked(0), Ticked(3), Ticked(4), Ticked(5) }, pool \in Pools }

\* The click on "generate teams".  With nothing ticked and four players or
\* more, appState.players.sort(...) sorts the state's own array and slice(0, 4)
\* takes the first four; fewer than four ticked is an alert; then
\* generateBalancedTeams(playersToUse, appState.players), an alert if it throws.
AppGenerateTeams ==
    /\ gl.call = "App.generateTeams"
    /\ gl.phase = "ready"
    /\ IF Len(gl.sel) = 0 /\ Len(gl.pool) >= 4
       THEN \E sorted \in SortedByGamesPlayed(Range(gl.pool)) :
            \E teams \in generateBalancedTeams(Slice(sorted, 4), sorted) :
               gl' = [gl EXCEPT !.phase = "returned", !.picked = Slice(sorted, 4),
                                !.out1 = teams[1], !.out2 = teams[2],
                                !.selAfter = gl.sel, !.poolAfter = sorted]
       ELSE IF Len(gl.sel) < 4 \/ generateBalancedTeams(gl.sel, gl.pool) = {}
       THEN gl' = [gl EXCEPT !.phase = "alerted", !.selAfter = gl.sel, !.poolAfter = gl.pool]
       ELSE \E teams \in generateBalancedTeams(gl.sel, gl.pool) :
               gl' = [gl EXCEPT !.phase = "returned", !.picked = gl.sel,
                                !.out1 = teams[1], !.out2 = teams[2],
                                !.selAfter = gl.sel, !.poolAfter = gl.pool]
    /\ UNCHANGED Backend

\* ------------------------------------------ POST /api/players/generate-teams
MaxStored == 5

\* The players table the route reads: three players or more, each created by
\* the add-player form (1200) or as a demo player (1300).
StoredTables ==
    { PoolAfter(es) : es \in UNION { [1..n -> {1200, 1300}] : n \in 3..MaxStored } }

\* selectedPlayerIds of the body: none, too few, four or five stored ids in
\* some order, a list with an id that no player has, and lists that name a
\* player twice.
IdLists ==
    { <<>>, <<1, 2, 3>>, <<1, 2, 3, 4>>, <<4, 3, 2, 1>>, <<1, 2, 3, 9>>, <<1, 2, 3, 4, 5>>,
      <<1, 1, 2, 3>>, <<1, 2, 3, 9, 3>> }

EndpointCalls ==
    { [NoCall EXCEPT !.call = "generate-teams", !.phase = "ready", !.ids = ids] :
        ids \in IdLists }

\* mapRowToPlayer, the columns the route reads.
RowToPlayer(tbl, id) ==
    [id |-> id, currentElo |-> tbl[id].elo, gamesPlayed |-> tbl[id].total]

\* getAllPlayers({sortBy: 'total_matches', sortOrder: 'asc', limit: 8}): rows
\* of equal total_matches in rowid order.
FewerMatches(tbl, a, b) ==
    tbl[a].total < tbl[b].total \/ (tbl[a].total = tbl[b].total /\ a < b)

getAllPlayers(tbl) ==
    LET n == Cardinality(DOMAIN tbl)
        at(k) == CHOOSE p \in DOMAIN tbl :
                    Cardinality({ q \in DOMAIN tbl : FewerMatches(tbl, q, p) }) = k - 1
    IN Slice([k \in 1..n |-> RowToPlayer(tbl, at(k))], 8)

\* Promise.all(selectedPlayerIds.map(getPlayerById)) and filter(Boolean)
RECURSIVE getPlayersById(_, _)
getPlayersById(tbl, ids) ==
    IF ids = <<>> THEN <<>>
    ELSE (IF ids[1] \in DOMAIN tbl THEN <<RowToPlayer(tbl, ids[1])>> ELSE <<>>)
            \o getPlayersById(tbl, Tail(ids))

\* selectedPlayers.sort((a, b) => b.currentElo - a.currentElo), stable
RECURSIVE SortByElo(_)
SortByElo(s) ==
    IF s = <<>> THEN <<>>
    ELSE LET sorted == SortByElo(SubSeq(s, 1, Len(s) - 1))
             p == s[Len(s)]
             k == Cardinality({ i \in DOMAIN sorted : sorted[i].currentElo >= p.currentElo })
         IN SubSeq(sorted, 1, k) \o <<p>> \o SubSeq(sorted, k + 1, Len(sorted))

\* if (players.length < 4) return res.status(400)
TooFew(found) == Len(found) < 4

\* The route: the players of the ids when four ids or more were sent, else
\* the eight with the fewest matches; 400 for fewer than four players; else
\* the first four by descending rating, first with last against the middle
\* two.  An error of a query is answered 500.
GenerateTeamsRoute ==
    /\ gl.call = "generate-teams"
    /\ gl.phase = "ready"
    /\ \/ gl' = [gl EXCEPT !.phase = "failed", !.status = 500]
       \/ LET found == IF Len(gl.ids) >= 4 THEN getPlayersById(players, gl.ids)
                       ELSE getAllPlayers(players)
              s == SortByElo(Slice(found, 4))
          IN IF TooFew(found)
             THEN gl' = [gl EXCEPT !.phase = "returned", !.status = 400, !.picked = found]
             ELSE gl' = [gl EXCEPT !.phase = "returned", !.status = 200, !.picked = found,
                                   !.out1 = <<s[1], s[4]>>, !.out2 = <<s[2], s[3]>>]
    /\ UNCHANGED Backend

\* ------------------------------------------------------ calculateTeamStrength
\* Win rates of the players of a team, in hundredths.
StrengthRates == TeamRates \cup {0, 100}

\* The teams the function is given: none, one or two players (a Team is a
\* pair), of any level and rate.  On one or two players the doubles the code
\* adds up do not depend on the order: 0 + a is a, and a + b is b + a.
Teams ==
    UNION { { [k \in 1..n |-> PlayerOf(k, l[k], w[k], 0)] :
                l \in [1..n -> SkillLevels], w \in [1..n -> StrengthRates] } : n \in 0..2 }

StrengthCalls ==
    { [NoCall EXCEPT !.call = "calculateTeamStrength", !.phase = "ready", !.sel = team] :
        team \in Teams }

\* calculateTeamStrength(players): reads the players, changes nothing.
CallCalculateTeamStrength ==
    /\ gl.call = "calculateTeamStrength"
    /\ gl.phase = "ready"
    /\ gl' = [gl EXCEPT !.phase = "returned", !.strength = calculateTeamStrength(gl.sel),
                        !.selAfter = gl.sel]
    /\ UNCHANGED Backend

\* ------------------------------------------------------- the specification
LogicCalls ==
    LevelDownCalls \cup SelectCalls \cup TeamCalls \cup AppCalls \cup StrengthCalls

InitLogic ==
    /\ \/ /\ gl \in LogicCalls
          /\ players = PoolAfter(<<>>)
       \/ /\ gl \in EndpointCalls
          /\ players \in StoredTables
    /\ nextId = Cardinality(DOMAIN players) + 1
    /\ matches = {}
    /\ history = <<>>
    /\ req = [r \in Req |-> Idle]
    /\ ops = 0
    /\ ui = NoBrowser

NextLogic ==
    \/ CallShouldPlayerLevelDown
    \/ CallSelectPlayersForGame
    \/ CallGenerateBalancedTeams
    \/ CallAgain
    \/ AppGenerateTeams
    \/ GenerateTeamsRoute
    \/ CallCalculateTeamStrength

SpecLogic == InitLogic /\ [][NextLogic]_vars

\* ================================================================ properties
Participants(m) == {m.t1p1, m.t1p2, m.t2p1, m.t2p2} \ {None}

\* The route answered `code` to a request of this kind, and the slot still
\* holds that response.
Answered(r, kind, code) ==
    req[r].kind = kind /\ req[r].pc = "done" /\ req[r].status = code

\* The player's row before any match: the rating it was created with.
Unplayed(p) ==
    [players[p] EXCEPT !.elo = players[p].initial, !.total = 0, !.wins = 0,
                       !.losses = 0, !.wr = <<0, 1>>, !.streak = 0, !.longest = 0]

\* One match applied to a row nobody else writes.
Applied(row, isWinner) == StatsUpdate(row, row, isWinner)

SameStats(a, b) ==
    /\ a.elo = b.elo /\ a.total = b.total /\ a.wins = b.wins
    /\ a.losses = b.losses /\ a.streak = b.streak

\* Member of the team with the higher score.
OnHigherScoringTeam(m, p) ==
    \/ p \in {m.t1p1, m.t1p2} /\ m.s1 > m.s2
    \/ p \in {m.t2p1, m.t2p2} /\ m.s2 > m.s1

RanksOf(tbl) == { tbl[p].rank : p \in DOMAIN tbl }

C4_SubmitAppliedOnce ==
    ui.phase \in {"shown", "failed"}
    => \A p \in Participants(SubmitBody(1, GameResultOf(ui.winner, ui.score))) :
         players[p].total = 1

C8_FixedK ==
    /\ \A k \in 1..Len(history) :
         history[k].newElo = IF history[k].result = "WIN"
                             THEN Min(3000, history[k].previousElo + 16)
                             ELSE Max(100, history[k].previousElo - 16)
    /\ (ops = 1 /\ Answered(1, "record", 200))
       => /\ \A k \in 1..Len(history) :
               history[k].player \in DOMAIN players
               => /\ history[k].previousElo = players[history[k].player].initial
                  /\ players[history[k].player].elo = history[k].newElo
          /\ \A m \in matches :
               (/\ m.t1p2 = None /\ m.t2p2 = None /\ m.s1 > m.s2
                /\ players[m.t1p1].initial = 1200 /\ players[m.t2p1].initial = 1200)
               => /\ players[m.t1p1].elo = 1216 /\ players[m.t1p1].wins = 1
                  /\ players[m.t1p1].total = 1
                  /\ players[m.t2p1].elo = 1184 /\ players[m.t2p1].losses = 1
                  /\ players[m.t2p1].total = 1

\* C8 witness: one singles match between two 1200 players was recorded, team 1
\* winning, and a match between a 3000 and a 110 player.
C8_Recorded1200 ==
    /\ ops = 1 /\ Answered(1, "record", 200)
    /\ \E m \in matches :
         /\ m.t1p2 = None /\ m.t2p2 = None /\ m.s1 > m.s2
         /\ players[m.t1p1].initial = 1200 /\ players[m.t2p1].initial = 1200
         /\ players[m.t1p1].elo = 1216 /\ players[m.t2p1].elo = 1184

\* C9: wins + losses = totalMatches and winRate = wins / totalMatches for
\* every player, at every moment of any run of createPlayer and recordMatch
\* requests, concurrent ones included.
C9_StatsConsistent ==
    \A p \in DOMAIN players :
        /\ players[p].wins + players[p].losses = players[p].total
        /\ players[p].total > 0
           => players[p].wr[1] * players[p].total = players[p].wins * players[p].wr[2]

\* C9 witness: two record-match requests interleaved on a player, who has two
\* history rows but one counted match, a win.
C9_Interleaved ==
    /\ \A r \in 1..2 : Answered(r, "record", 200)
    /\ \E p \in DOMAIN players :
         /\ Cardinality({ k \in 1..Len(history) : history[k].player = p }) = 2
         /\ players[p].total = 1 /\ players[p].wins = 1

\* C10: when a record-match request served alone has been answered 200, the
\* ranks of all players are exactly 1..n without duplicates, and a strictly
\* higher rating has a strictly smaller rank.
C10_RanksAfterRecord ==
    (\E r \in Req : Answered(r, "record", 200))
    => /\ RanksOf(players) = 1..Cardinality(DOMAIN players)
       /\ \A p \in DOMAIN players, q \in DOMAIN players :
            /\ p # q => players[p].rank # players[q].rank
            /\ players[p].elo > players[q].elo => players[p].rank < players[q].rank

\* C10 witness: a match was recorded while the pool held a player who did not
\* take part, and that player's rank moved.
C10_BystanderReranked ==
    /\ \E r \in Req : Answered(r, "record", 200)
    /\ \E m \in matches, p \in DOMAIN players :
         /\ p \notin Participants(m)
         /\ players[p].total = 0
         /\ players[p].rank # players[p].prev
         /\ players[p].prev # DefaultRank

\* The step of request r is one UPDATE of the loop of updateRankings.
RankStatement(r) ==
    /\ req[r].pc = "rankUpd"
    /\ req'[r] # req[r]
    /\ req'[r].status # 500

\* C11: every UPDATE of a rank recomputation sets the player's previousRank to
\* the currentRank the row held before it and rankChange to previousRank minus
\* the new currentRank; every stored row has rankChange = previousRank -
\* currentRank.
C11_RankBookkeeping ==
    /\ [](\A p \in DOMAIN players :
            players[p].change = players[p].prev - players[p].rank)
    /\ [][\A r \in Req :
            RankStatement(r)
            => LET pid == req[r].order[req[r].j] IN
               (pid \in DOMAIN players /\ pid \in DOMAIN players')
               => /\ players'[pid].prev = players[pid].rank
                  /\ players'[pid].change = players[pid].rank - players'[pid].rank]_vars

\* C11 witness: a recomputation moved a ranked player up: rankChange is
\* positive and previousRank is a rank the player held.
C11_MovedUp ==
    \E p \in DOMAIN players :
        /\ players[p].change > 0
        /\ players[p].prev # DefaultRank
        /\ players[p].rank = players[p].prev - players[p].change

\* C12: a record-match request that names a player id that is not in the
\* store is answered with an error and has stored nothing; every stored match
\* and history row names stored players only; when that request is the only
\* one so far, no match, no history row and no player's statistics changed.
C12_MissingPlayerRejected ==
    /\ \A m \in matches : Participants(m) \subseteq DOMAIN players
    /\ \A k \in 1..Len(history) : history[k].player \in DOMAIN players
    /\ \A r \in Req :
         (req[r].kind = "record" /\ \E pid \in Participants(req[r].m) : ~Exists(pid))
         => /\ req[r].pc = "done" /\ req[r].status \in {400, 500} /\ ~req[r].inserted
            /\ ops = 1 => /\ matches = {} /\ history = <<>>
                          /\ \A p \in DOMAIN players : SameStats(players[p], Unplayed(p))

\* C12 witness: the first request named player 3, who is not stored, next to
\* two stored players, and was answered 500.
C12_Player3Missing ==
    \E r \in Req :
        /\ ops = 1 /\ Answered(r, "record", 500)
        /\ req[r].m.t2p1 = 3 /\ ~Exists(3) /\ Exists(req[r].m.t1p1)

C19_OnlyRecordingChanges ==
    [][\A p \in DOMAIN players \cap DOMAIN players' :
          ~(SameStats(players[p], players'[p]) /\ players[p].wr = players'[p].wr
                /\ players[p].longest = players'[p].longest)
          => \E r \in Req :
                /\ req[r].kind = "record"
                /\ req[r].pc = "recUpdate"
                /\ p \in Participants(req[r].m)
                /\ AllPlayerIds(req[r].m)[req[r].i] = p]_vars

\* The players a call for teams was given: the ticked ones when there are
\* four or more, else the pool.
TeamInput == IF Len(gl.sel) >= 4 THEN gl.sel ELSE gl.pool

\* A call that answered with two teams.
TeamsReturned ==
    /\ gl.call \in {"generateBalancedTeams", "App.generateTeams"}
    /\ gl.phase \in {"returned", "repeated"}

\* C13: for an input of exactly 4 distinct players generateBalancedTeams
\* returns two teams of exactly 2 players each, with no player in both and
\* with the 4 input players as their union.
C13_TwoDisjointPairs ==
    (TeamsReturned /\ Len(TeamInput) = 4)
    => /\ Len(gl.out1) = 2 /\ Len(gl.out2) = 2
       /\ Cardinality(Range(gl.out1)) = 2 /\ Cardinality(Range(gl.out2)) = 2
       /\ Range(gl.out1) \cap Range(gl.out2) = {}
       /\ Range(gl.out1) \cup Range(gl.out2) = Range(TeamInput)

\* Four ticked players, two Pros first and two Beginners last, all at 0.5:
\* each team got one Pro and one Beginner.
C13_ProsSplit ==
    /\ gl.call = "generateBalancedTeams" /\ gl.phase = "returned"
    /\ Len(gl.sel) = 4
    /\ \A k \in 1..4 : gl.sel[k].winRate = 50
    /\ gl.sel[1].skillLevel = "PRO" /\ gl.sel[2].skillLevel = "PRO"
    /\ gl.sel[3].skillLevel = "BEGINNER" /\ gl.sel[4].skillLevel = "BEGINNER"
    /\ gl.out1 = <<gl.sel[1], gl.sel[3]>>
    /\ gl.out2 = <<gl.sel[2], gl.sel[4]>>

\* |teamStrength(a) - teamStrength(b)| of two teams.
Gap(a, b) == Abs(calculateTeamStrength(a) - calculateTeamStrength(b))

\* The skill levels of a team, in the team's order.
LevelsOf(team) == [k \in DOMAIN team |-> team[k].skillLevel]

\* C14: the two teams returned for 4 players have the smallest strength gap of
\* the three candidate splits, which are all the ways to split four players
\* two against two; a Pro, an Advanced, an Intermediate and a Beginner, each at
\* win rate 0.5, come back as Pro with Beginner against Advanced with
\* Intermediate.
C14_SmallestGap ==
    (TeamsReturned /\ Len(gl.out1) = 2 /\ Len(gl.out2) = 2)
    => LET four == Range(gl.out1) \cup Range(gl.out2) IN
       /\ \A a, b, c, d \in four :
             Cardinality({a, b, c, d}) = 4
             => Gap(gl.out1, gl.out2) <= Gap(<<a, b>>, <<c, d>>)
       /\ ( /\ \A p \in four : p.winRate = 50
            /\ { p.skillLevel : p \in four } = SkillLevels )
          => /\ LevelsOf(gl.out1) = <<"PRO", "BEGINNER">>
             /\ LevelsOf(gl.out2) = <<"ADVANCED", "INTERMEDIATE">>

\* The four levels ticked in the order Beginner, Pro, Intermediate, Advanced,
\* each at 0.5: the Pro and the Beginner are one team.
C14_ProWithBeginner ==
    /\ gl.call = "generateBalancedTeams" /\ gl.phase = "returned"
    /\ LevelsOf(gl.sel) = <<"BEGINNER", "PRO", "INTERMEDIATE", "ADVANCED">>
    /\ \A k \in 1..4 : gl.sel[k].winRate = 50
    /\ gl.out1 = <<gl.sel[2], gl.sel[1]>>
    /\ gl.out2 = <<gl.sel[4], gl.sel[3]>>

\* p comes before q when the ticked players are put in descending order of
\* strength, players of equal strength in the order they were ticked.
Stronger(p, q) ==
    \/ strengthScore(p) > strengthScore(q)
    \/ /\ strengthScore(p) = strengthScore(q)
       /\ (CHOOSE k \in DOMAIN gl.sel : gl.sel[k] = p) < (CHOOSE k \in DOMAIN gl.sel : gl.sel[k] = q)

\* The k-th strongest of the ticked players.
Strongest(k) ==
    CHOOSE p \in Range(gl.sel) :
        Cardinality({ q \in Range(gl.sel) : Stronger(q, p) }) = k - 1

\* The k-th candidate split: the strongest with the (k + 1)-th strongest
\* against the other two, strongest first.
Candidate(k) ==
    LET rest == { j \in 2..4 : j # k + 1 }
        lo == CHOOSE j \in rest : \A i \in rest : j <= i
        hi == CHOOSE j \in rest : \A i \in rest : j >= i
    IN << <<Strongest(1), Strongest(k + 1)>>, <<Strongest(lo), Strongest(hi)>> >>

CandidateGap(k) == Gap(Candidate(k)[1], Candidate(k)[2])

Selected ==
    \/ gl.call = "selectPlayersForGame" /\ gl.phase = "returned"
    \/ gl.call = "App.generateTeams" /\ gl.phase = "returned" /\ Len(gl.sel) = 0

\* The number of players the selection was to pick.
Wanted == IF gl.call = "selectPlayersForGame" THEN gl.count ELSE 4

\* C16: a selection from a pool of at least `count` players picks exactly
\* `count` distinct players of the pool, no player left out has played fewer
\* games than a player picked, whatever the random tie-break did, and the
\* pool is afterwards the same array in the same order.
C16_FewestGamesPoolKept ==
    Selected
    => /\ Len(gl.picked) = Wanted
       /\ Cardinality(Range(gl.picked)) = Wanted
       /\ Range(gl.picked) \subseteq Range(gl.pool)
       /\ \A out \in Range(gl.pool) \ Range(gl.picked), in \in Range(gl.picked) :
              out.gamesPlayed >= in.gamesPlayed
       /\ gl.poolAfter = gl.pool

\* C17: with fewer candidates than required nothing is returned and the call
\* fails: selectPlayersForGame throws when the pool is smaller than the count,
\* generateBalancedTeams throws when neither the ticked players nor the pool
\* are 4, and the generate-teams route answers 400 when the players it found
\* are fewer than 4.
C17_TooFewFails ==
    /\ (gl.call = "selectPlayersForGame" /\ gl.phase # "ready" /\ Len(gl.pool) < gl.count)
       => (gl.phase = "threw" /\ gl.picked = <<>>)
    /\ (gl.call = "generateBalancedTeams" /\ gl.phase # "ready"
            /\ Len(gl.sel) < 4 /\ Len(gl.pool) < 4)
       => (gl.phase = "threw" /\ gl.out1 = <<>> /\ gl.out2 = <<>>)
    /\ (gl.call = "generate-teams" /\ gl.phase = "returned" /\ Len(gl.picked) < 4)
       => (gl.status = 400 /\ gl.out1 = <<>> /\ gl.out2 = <<>>)
    /\ (gl.call = "generate-teams" /\ gl.phase = "failed")
       => (gl.status = 500 /\ gl.out1 = <<>> /\ gl.out2 = <<>>)

\* selectPlayersForGame threw on a pool of 3 asked for 4.
C17_ThreeForFour ==
    /\ gl.call = "selectPlayersForGame" /\ gl.phase = "threw"
    /\ Len(gl.pool) = 3 /\ gl.count = 4
    /\ gl.picked = <<>> /\ gl.poolAfter = gl.pool

\* C20: shouldPlayerLevelDown answers false for a player with fewer than 10
\* games whatever the win rate; from 10 games on it answers true exactly when
\* the win rate is strictly below the tier's threshold (Beginner 0.40,
\* Intermediate 0.45, Advanced 0.48, Pro 0.50); the player is left as it was.
C20_LevelDownAdvice ==
    (gl.call = "shouldPlayerLevelDown" /\ gl.phase = "returned")
    => LET p == gl.player
           limit == CASE p.skillLevel = "BEGINNER" -> 40
                      [] p.skillLevel = "INTERMEDIATE" -> 45
                      [] p.skillLevel = "ADVANCED" -> 48
                      [] p.skillLevel = "PRO" -> 50
       IN /\ p.gamesPlayed < 10 => gl.flag = FALSE
          /\ p.gamesPlayed >= 10 => (gl.flag <=> p.winRate < limit)
          /\ gl.playerAfter = p

\* A Pro at exactly 0.50 after ten games is not flagged.
C20_ProAtThreshold ==
    /\ gl.call = "shouldPlayerLevelDown" /\ gl.phase = "returned"
    /\ gl.player.skillLevel = "PRO" /\ gl.player.gamesPlayed = 10
    /\ gl.player.winRate = 50 /\ ~gl.flag

\* C21 -- a player with no match played, a newly created one in particular,
\* has the neutral win rate 0.5: the win_rate stored in the row, which
\* mapRowToPlayer hands on as winRate, is one half.
C21_NeutralWinRate ==
    \A p \in DOMAIN players :
        players[p].total = 0 => 2 * players[p].wr[1] = players[p].wr[2]

\* The step of request r is the UPDATE players statement that counts the
\* match for the participant the loop is at.
StatsStatement(r) ==
    /\ req[r].pc = "recUpdate"
    /\ req'[r].pc = "recHist"
    /\ AllPlayerIds(req[r].m)[req[r].i] \in DOMAIN players

\* C22: every UPDATE that counts a recorded match for a player leaves
\* longestWinStreak at the maximum of the longestWinStreak the row held and
\* the new currentWinStreak; so currentWinStreak <= longestWinStreak for every
\* player throughout any run of createPlayer and recordMatch requests,
\* interleaved ones included.
C22_LongestStreak ==
    /\ [](\A p \in DOMAIN players : players[p].streak <= players[p].longest)
    /\ [][\A r \in Req :
            StatsStatement(r)
            => LET pid == AllPlayerIds(req[r].m)[req[r].i] IN
               players'[pid].longest = Max(players[pid].longest, players'[pid].streak)]_vars

\* C22 witness: two record-match requests interleaved on one player, a win and
\* a loss both computed from the unplayed row: one match is counted, the
\* current streak is 0 and the longest streak is the 1 the win wrote.
C22_StreakKeptAcrossLostUpdate ==
    /\ \A r \in 1..2 : Answered(r, "record", 200)
    /\ \E p \in DOMAIN players :
         /\ Cardinality({ k \in 1..Len(history) : history[k].player = p }) = 2
         /\ players[p].total = 1
         /\ players[p].streak = 0 /\ players[p].longest = 1

\* The same players in every order.
Orderings(team) ==
    { [k \in DOMAIN team |-> team[f[k]]] :
        f \in { g \in [DOMAIN team -> DOMAIN team] :
                  \A i \in DOMAIN team, j \in DOMAIN team : g[i] = g[j] => i = j } }

\* C23: calculateTeamStrength returns the same value for every order of the
\* same players of a team, and 0 for a team of no players.
C23_OrderDoesNotMatter ==
    (gl.call = "calculateTeamStrength" /\ gl.phase = "returned")
    => /\ \A other \in Orderings(gl.sel) : calculateTeamStrength(other) = gl.strength
       /\ gl.sel = <<>> => gl.strength = 0

\* C23 witness: the strength of a pro at 60% with a beginner at 40%, the pro
\* first: 0.6 * 2 + 0.4 * 3 * 0.5 = 1.8, the same as the beginner first.
C23_ProThenBeginner ==
    /\ gl.call = "calculateTeamStrength" /\ gl.phase = "returned"
    /\ Len(gl.sel) = 2
    /\ gl.sel[1].skillLevel = "PRO" /\ gl.sel[1].winRate = 60
    /\ gl.sel[2].skillLevel = "BEGINNER" /\ gl.sel[2].winRate = 40
    /\ gl.strength = 108000
    /\ calculateTeamStrength(<<gl.sel[2], gl.sel[1]>>) = 108000

\* C24: whichever team the results screen has selected as the winner, with
\* the winner's score above the loser's, the matchResult App.handleGameComplete
\* builds makes updatePlayerStatsAfterMatch take the players of the selected
\* team for the winners (+16, a win) and the players of the other team for
\* the losers.
C24_SelectedTeamCountedWinner ==
    (ui.winner # "none" /\ ui.score[1] > ui.score[2])
    => LET result == GameResultOf(ui.winner, ui.score)
           body == GameCompleteBody(FreshId(matches), result)
       IN \A k \in 1..2 :
            /\ IsWinner(body, PlayerIdAt(result.winner, k))
            /\ EloChange(IsWinner(body, PlayerIdAt(result.winner, k))) = 16
            /\ ~IsWinner(body, PlayerIdAt(result.loser, k))

\* C25: whenever generateBalancedTeams returns, for 4 ticked players or more
\* or for a pool of 4 or more, a candidate split was evaluated and returned,
\* not the alternating fallback: the result is two teams of 2.
C25_FallbackNeverTaken ==
    TeamsReturned
    => (Len(gl.out1) = 2 /\ Len(gl.out2) = 2)

\* Every request made so far was a record-match, a creation, a deletion or an
\* update-rankings, and the ones still held by a slot were answered with
\* success; no handler is running.
AllCompleted ==
    /\ \E r \in Req : req[r].pc = "done"
    /\ \A r \in Req :
         \/ req[r] = Idle
         \/ /\ req[r].pc = "done"
            /\ req[r].kind \in {"record", "create", "delete", "rankings"}
            /\ req[r].status = SuccessCode(req[r].kind)

\* C26: once concurrent record-match, creation, deletion and update-rankings
\* requests have all completed, the stored ranks are 1..n without duplicates
\* and in the order of the final ratings: a higher rating has a smaller rank.
C26_RanksAfterConcurrentRequests ==
    AllCompleted
    => /\ RanksOf(players) = 1..Cardinality(DOMAIN players)
       /\ \A p \in DOMAIN players, q \in DOMAIN players :
            players[p].elo > players[q].elo => players[p].rank < players[q].rank

\* The step is the arrival of a record-match request at slot r with a body
\* that passes the route's validations and carries a Date.
RecordArrives(r) ==
    /\ ops' = ops + 1
    /\ req'[r] # req[r]
    /\ req'[r].kind = "record"
    /\ req'[r].m.t1p1 # None /\ req'[r].m.t2p1 # None
    /\ req'[r].m.scoreOk /\ req'[r].m.date = "Date"

\* C27: a record-match request whose matchId is already stored is answered
\* with an error at the INSERT INTO matches: no match row is added and no
\* player's row and no history row changes; so no match has two history rows
\* for one player.
C27_StoredMatchIdRejected ==
    /\ [](\A a \in 1..Len(history), b \in 1..Len(history) :
            (history[a].match = history[b].match /\ history[a].player = history[b].player)
            => a = b)
    /\ [][\A r \in Req :
            (RecordArrives(r) /\ \E x \in matches : x.matchId = req'[r].m.matchId)
            => /\ req'[r].pc = "done" /\ req'[r].status = 500 /\ ~req'[r].inserted
               /\ UNCHANGED <<players, matches, history>>]_vars

\* C27 witness: a match was recorded and its history rows written, then the
\* same body was sent again and answered 500.
C27_SentAgain ==
    \E r \in Req :
        /\ ops = 2 /\ Answered(r, "record", 500)
        /\ req[r].m \in matches /\ ~req[r].inserted
        /\ \A p \in Participants(req[r].m) :
             /\ p \in DOMAIN players /\ players[p].total = 1
             /\ Cardinality({ k \in 1..Len(history) :
                                history[k].player = p /\ history[k].match = req[r].m.matchId }) = 1

IdsOf(team) == { team[k].id : k \in DOMAIN team }

\* C30: every generate-teams request answered 200 got two teams of 2 players,
\* four different players in all, whatever selectedPlayerIds held: more than
\* four ids, an id twice, an id no player has.
C30_TwoTeamsOfDistinctPlayers ==
    (gl.call = "generate-teams" /\ gl.phase = "returned" /\ gl.status = 200)
    => /\ Len(gl.out1) = 2 /\ Len(gl.out2) = 2
       /\ Cardinality(IdsOf(gl.out1)) = 2 /\ Cardinality(IdsOf(gl.out2)) = 2
       /\ IdsOf(gl.out1) \cap IdsOf(gl.out2) = {}
====
